---------------------------- MODULE Spec2Model ----------------------------
(***************************************************************************)
(* A model of the fixation-target generator: one invocation of             *)
(* fixation_target (src/fixation_target/generator.py) by one of its        *)
(* callers, from the binding of the keyword arguments to the two output    *)
(* files, with the raster canvas and the vector document it produces.      *)
(*                                                                         *)
(* Units.  Angles are integers in hundredths of a degree, lengths in       *)
(* hundredths of a millimetre, colours are 4-tuples of 8-bit channels.     *)
(* The floating-point conversions of converter.py are computed in fixed    *)
(* point (see visual_angle_to_pixels).  An optional argument is <<>> for   *)
(* None and <<v>> for the value v; an optional colour is <<>> or the       *)
(* 4-tuple itself.  A string is a sequence of one-character strings.       *)
(***************************************************************************)
EXTENDS Integers, Sequences, FiniteSets, TLC

VARIABLES
    pc,          \* position of the invocation in fixation_target
    caller,      \* which caller made the call
    args,        \* the keyword arguments the caller passed
    err,         \* the exception that ended the call ("" while none)
    layout,      \* <<>> or <<the locals computed by lines 245-330>>
    dirCreated,  \* mkdir has run: the output directory is there, made if absent
    files,       \* names of the files this call has written
    png,         \* <<>> or <<the image saved as the PNG>>
    svg,         \* <<>> or <<the document saved as the SVG>>
    roundtrip    \* <<>> or <<a conversion through a VisualAngleConverter>>

vars == <<pc, caller, args, err, layout, dirCreated, files, png, svg, roundtrip>>

None == <<>>

(***************************************************************************)
(* Bounds of the model.                                                    *)
(***************************************************************************)
MaxTypeLen == 3

(***************************************************************************)
(* Strings: str.upper, str.lower and the one-character "in" test.          *)
(***************************************************************************)
Letters == {"A", "B", "C", "D", "a", "b", "c"}

UpperChar(ch) ==
    CASE ch = "a" -> "A"
      [] ch = "b" -> "B"
      [] ch = "c" -> "C"
      [] OTHER -> ch

LowerChar(ch) ==
    CASE ch = "A" -> "a"
      [] ch = "B" -> "b"
      [] ch = "C" -> "c"
      [] ch = "D" -> "d"
      [] OTHER -> ch

Upper(s) == [i \in 1..Len(s) |-> UpperChar(s[i])]

Lower(s) == [i \in 1..Len(s) |-> LowerChar(s[i])]

Contains(s, ch) == \E i \in 1..Len(s) : s[i] = ch

valid_types ==
    { <<"A">>, <<"B">>, <<"C">>, <<"A", "B">>, <<"A", "C">>, <<"B", "C">>,
      <<"A", "B", "C">> }

\* a faulty variant of IsValidType: the type is compared as given
IsValidTypeNoUpper(target_type) == target_type \in valid_types

\* lines 239-241
IsValidType(target_type) == Upper(target_type) \in valid_types

\* lines 246-248
draw_center(t) == Contains(t, "A")
draw_outer(t) == Contains(t, "B")
draw_cross(t) == Contains(t, "C")

(***************************************************************************)
(* The colour rules of lines 250-284, on the normalised type t.            *)
(***************************************************************************)
ConflictAB(t, a) ==
    draw_center(t) /\ draw_outer(t) /\ ~draw_cross(t)
        /\ a.center_color = a.outer_color

ConflictAC(t, a) ==
    draw_center(t) /\ draw_cross(t) /\ ~draw_outer(t)
        /\ a.center_color = a.cross_color

ConflictBC(t, a) ==
    draw_outer(t) /\ draw_cross(t) /\ ~draw_center(t)
        /\ a.outer_color = a.cross_color

\* a faulty variant of ConflictABC: the three colours must be pairwise distinct
ConflictABCPairwise(t, a) ==
    draw_center(t) /\ draw_outer(t) /\ draw_cross(t)
        /\ (a.cross_color = a.outer_color \/ a.cross_color = a.center_color
              \/ a.center_color = a.outer_color)

ConflictABC(t, a) ==
    draw_center(t) /\ draw_outer(t) /\ draw_cross(t)
        /\ (a.cross_color = a.outer_color \/ a.cross_color = a.center_color)

\* a faulty variant of ColorConflict: any two equal colours are rejected
ColorConflictAnyPair(t, a) ==
    a.center_color = a.outer_color \/ a.center_color = a.cross_color
        \/ a.outer_color = a.cross_color

ColorConflict(t, a) ==
    ConflictAB(t, a) \/ ConflictAC(t, a) \/ ConflictBC(t, a) \/ ConflictABC(t, a)


(***************************************************************************)
(* converter.py.  A float is a fixed-point integer: radians and tangents   *)
(* in millionths, millimetres (of the 1/100 mm unit) and pixels in         *)
(* thousandths.  A conversion factor is kept as the exact quotient         *)
(* <<numerator, denominator>> the constructor divides.                     *)
(***************************************************************************)
VisualAngleConverter(a) ==
    [ screen_width_pixels  |-> a.screen_width_px,
      screen_height_pixels |-> a.screen_height_px,
      screen_width_mm      |-> a.screen_width_mm,
      screen_height_mm     |-> a.screen_height_mm,
      distance             |-> a.viewing_distance_mm,
      width_pixels_per_mm  |-> <<a.screen_width_px, a.screen_width_mm>>,
      height_pixels_per_mm |-> <<a.screen_height_px, a.screen_height_mm>>,
      width_mm_per_pixel   |-> <<a.screen_width_mm, a.screen_width_px>>,
      height_mm_per_pixel  |-> <<a.screen_height_mm, a.screen_height_px>> ]

\* lines 45-48: a quotient with a zero divisor raises ZeroDivisionError
DividesByZero(a) ==
    \/ a.screen_width_mm = 0
    \/ a.screen_height_mm = 0
    \/ a.screen_width_px = 0
    \/ a.screen_height_px = 0

Times(x, ratio) == (x * ratio[1]) \div ratio[2]

\* a faulty variant of mm_to_pixels: the axes are exchanged
mm_to_pixels_swapped(conv, mm, orientation) ==
    CASE orientation = "horizontal" -> Times(mm, conv.height_pixels_per_mm)
      [] orientation = "vertical"   -> Times(mm, conv.width_pixels_per_mm)

\* lines 58-64
mm_to_pixels(conv, mm, orientation) ==
    CASE orientation = "horizontal" -> Times(mm, conv.width_pixels_per_mm)
      [] orientation = "vertical"   -> Times(mm, conv.height_pixels_per_mm)

pixels_to_mm(conv, pixels, orientation) ==
    CASE orientation = "horizontal" -> Times(pixels, conv.width_mm_per_pixel)
      [] orientation = "vertical"   -> Times(pixels, conv.height_mm_per_pixel)

\* math.radians: hundredths of a degree to millionths of a radian
radians(angle) == (angle * 174533) \div 1000

\* math.tan on millionths, by the first two terms of its series
tan(x) == x + ((((x * x) \div 1000000) * x) \div 3000000)

visual_angle_to_pixels(conv, angle, orientation) ==
    LET angle_radians == radians(angle)
        size_mm == (2 * conv.distance * tan(angle_radians \div 2)) \div 1000
    IN  mm_to_pixels(conv, size_mm, orientation)

\* int(): a float in thousandths truncated toward zero
int(x) == IF x >= 0 THEN x \div 1000 ELSE -((-x) \div 1000)

SetMax(S) == CHOOSE m \in S : \A n \in S : n <= m

(***************************************************************************)
(* Lines 245-248 and 286-331 of fixation_target: the resolved layout.      *)
(***************************************************************************)
\* a faulty variant of largest_diameter: the background never shrinks the canvas
largest_diameter_max(t, center_px, outer_px, background_px) ==
    LET diameters == (IF draw_center(t) THEN {center_px} ELSE {})
                       \cup (IF draw_outer(t) THEN {outer_px} ELSE {})
                       \cup (IF draw_cross(t) THEN {outer_px} ELSE {})
        all == diameters \cup (IF background_px # None
                                 THEN {background_px[1]} ELSE {})
    IN  IF all # {} THEN SetMax(all) ELSE outer_px

largest_diameter(t, center_px, outer_px, background_px) ==
    IF background_px # None
      THEN background_px[1]
      ELSE LET diameters == (IF draw_center(t) THEN {center_px} ELSE {})
                              \cup (IF draw_outer(t) THEN {outer_px} ELSE {})
                              \cup (IF draw_cross(t) THEN {outer_px} ELSE {})
           IN  IF diameters # {} THEN SetMax(diameters) ELSE outer_px

\* a faulty variant of img_size: no padding around the largest diameter
img_size_unpadded(largest) == <<largest, largest>>

\* line 329
img_size(largest) == <<largest + 2, largest + 2>>

ComputedLayout(a) ==
    LET t == Upper(a.target_type)
        converter == VisualAngleConverter(a)
        px(deg) == int(visual_angle_to_pixels(converter, deg, "vertical"))
        center_diameter_px == px(a.center_diameter_in_degrees)
        outer_diameter_px == px(a.outer_diameter_in_degrees)
        cross_width_px == px(a.cross_width_in_degrees)
        background_diameter_px ==
            IF a.background_diameter_in_degrees # None
              THEN <<px(a.background_diameter_in_degrees[1])>>
              ELSE None
        largest == largest_diameter(t, center_diameter_px, outer_diameter_px,
                                    background_diameter_px)
    IN  [ target_type |-> t,
          draw_center |-> draw_center(t),
          draw_outer |-> draw_outer(t),
          draw_cross |-> draw_cross(t),
          center_diameter_px |-> center_diameter_px,
          outer_diameter_px |-> outer_diameter_px,
          cross_width_px |-> cross_width_px,
          background_diameter_px |-> background_diameter_px,
          img_size |-> img_size(largest),
          cx |-> img_size(largest)[1] \div 2,
          cy |-> img_size(largest)[2] \div 2 ]

ExampleScreen ==
    [ screen_width_mm |-> 47664, screen_height_mm |-> 26811,
      screen_width_px |-> 1920, screen_height_px |-> 1080,
      viewing_distance_mm |-> 93000 ]

(***************************************************************************)
(* PIL, as _render_png uses it.  An image is [size |-> <<w, h>>, px |->    *)
(* a function on <<x, y>>, 0 <= x < w, 0 <= y < h]: RGBA 4-tuples for mode *)
(* "RGBA", integers for mode "L".                                          *)
(***************************************************************************)
\* The one element of a singleton set, and a function as its explicit table
\* (f @@ f = f).  The operators below take an image through a bound variable,
\* { e(i) : i \in {im} }, and tabulate the pixels they compute, so that a
\* pixel is evaluated once and not once per use.
The(S) == CHOOSE r \in S : TRUE

Table(f) == f @@ f

Pixels(size) == (0..(size[1] - 1)) \X (0..(size[2] - 1))

ImageNew(size, color) ==
    [size |-> size, px |-> Table([p \in Pixels(size) |-> color])]

\* The filled ellipse of the inclusive bounding box b = <<x0, y0, x1, y1>>
\* (here always a circle): the pixels within half a pixel of the radius,
\* in doubled coordinates; none when the box is inverted.
InEllipse(p, b) ==
    /\ b[1] <= p[1] /\ p[1] <= b[3]
    /\ b[2] <= p[2] /\ p[2] <= b[4]
    /\ LET a == b[3] - b[1]
           dx == 2 * p[1] - b[1] - b[3]
           dy == 2 * p[2] - b[2] - b[4]
       IN  dx * dx + dy * dy <= a * a + 2 * a

Ellipse(im, b, fill) ==
    The({ [i EXCEPT !.px = Table([p \in Pixels(i.size) |->
                               IF InEllipse(p, b) THEN fill ELSE i.px[p]])]
          : i \in {im} })

\* ImageDraw.line for the two axis-parallel strokes of the cross: a stroke
\* of width <= 1 is one pixel wide; a wider one covers (width - 1) \div 2
\* pixels on the low side of its axis and width \div 2 on the high side.
InLine(p, xy, width) ==
    LET lo == IF width <= 1 THEN 0 ELSE (width - 1) \div 2
        hi == IF width <= 1 THEN 0 ELSE width \div 2
    IN  IF xy[2] = xy[4]
          THEN /\ xy[1] <= p[1] /\ p[1] <= xy[3]
               /\ xy[2] - lo <= p[2] /\ p[2] <= xy[2] + hi
          ELSE /\ xy[2] <= p[2] /\ p[2] <= xy[4]
               /\ xy[1] - lo <= p[1] /\ p[1] <= xy[1] + hi

Line(im, xy, fill, width) ==
    The({ [i EXCEPT !.px = Table([p \in Pixels(i.size) |->
                               IF InLine(p, xy, width) THEN fill ELSE i.px[p]])]
          : i \in {im} })

\* PIL's rounded a * b / 255 on 8-bit values
MulDiv255(a, b) ==
    LET tmp == a * b + 128 IN ((tmp \div 256) + tmp) \div 256

\* ImageChops.multiply on mode "L"
Multiply(m1, m2) ==
    The({ [i1 EXCEPT !.px = Table([p \in Pixels(i1.size) |->
                                MulDiv255(i1.px[p], i2.px[p])])]
          : i1 \in {m1}, i2 \in {m2} })

Mix(c1, c2, m) == MulDiv255(c1, m) + MulDiv255(c2, 255 - m)

\* Image.composite: image1 where the mask is 255, image2 where it is 0,
\* and the mask-weighted mix of the two in between
Composite(image1, image2, mask) ==
    The({ [i2 EXCEPT !.px = Table([p \in Pixels(i2.size) |->
             <<Mix(i1.px[p][1], i2.px[p][1], m.px[p]),
               Mix(i1.px[p][2], i2.px[p][2], m.px[p]),
               Mix(i1.px[p][3], i2.px[p][3], m.px[p]),
               Mix(i1.px[p][4], i2.px[p][4], m.px[p])>>])]
          : i1 \in {image1}, i2 \in {image2}, m \in {mask} })

Clip8(v) == IF v < 0 THEN 0 ELSE IF v > 255 THEN 255 ELSE v

(***************************************************************************)
(* Image.resize(size, LANCZOS) from twice the size.  An RGBA image is      *)
(* resampled with premultiplied alpha, first along x and then along y.     *)
(* Output sample xx weighs the source samples 2xx-5 .. 2xx+6 that exist    *)
(* by the Lanczos-3 kernel at (i - 2xx - 1/2) / 2 (LanczosW, in 1/100000), *)
(* normalised by the sum of the weights used, rounded and clipped.         *)
(***************************************************************************)
LanczosW == <<89007, 27019, -13287, -6779, 3002, 736>>

Abs(n) == IF n < 0 THEN -n ELSE n

Weight(i, xx) == LanczosW[(Abs(2 * (i - 2 * xx) - 1) + 1) \div 2]

RECURSIVE WeightedSum(_, _, _, _)
WeightedSum(sample, xx, i, last) ==
    IF i > last THEN 0
    ELSE sample[i] * Weight(i, xx) + WeightedSum(sample, xx, i + 1, last)

RECURSIVE WeightSum(_, _, _)
WeightSum(xx, i, last) ==
    IF i > last THEN 0 ELSE Weight(i, xx) + WeightSum(xx, i + 1, last)

\* one output sample of a row (or column) of in_size source samples
Resample1(sample, in_size, xx) ==
    LET xmin == IF 2 * xx - 5 < 0 THEN 0 ELSE 2 * xx - 5
        xmax == IF 2 * xx + 6 > in_size - 1 THEN in_size - 1 ELSE 2 * xx + 6
    IN  The({ Clip8((sum + ww \div 2) \div ww)
              : sum \in {WeightedSum(sample, xx, xmin, xmax)},
                ww \in {WeightSum(xx, xmin, xmax)} })

Premultiply(c) ==
    <<MulDiv255(c[1], c[4]), MulDiv255(c[2], c[4]), MulDiv255(c[3], c[4]), c[4]>>

Unpremultiply(c) ==
    IF c[4] = 255 \/ c[4] = 0 THEN c
    ELSE <<Clip8((255 * c[1]) \div c[4]), Clip8((255 * c[2]) \div c[4]),
           Clip8((255 * c[3]) \div c[4]), c[4]>>

Channels(f) == <<f[1], f[2], f[3], f[4]>>

ResampleX(premultiplied, in_size, size) ==
    The({ Table([p \in Pixels(<<size[1], in_size[2]>>) |->
                   Channels([c \in 1..4 |->
                      Resample1([i \in 0..(in_size[1] - 1) |-> pre[<<i, p[2]>>][c]],
                                in_size[1], p[1])])])
          : pre \in {premultiplied} })

ResampleY(horizontal, in_size, size) ==
    The({ Table([p \in Pixels(size) |->
                   Channels([c \in 1..4 |->
                      Resample1([i \in 0..(in_size[2] - 1) |-> horiz[<<p[1], i>>][c]],
                                in_size[2], p[2])])])
          : horiz \in {horizontal} })

Resize(im, size) ==
    The({ [size |-> size,
           px |-> Table([p \in Pixels(size) |-> Unpremultiply(vert[p])])]
          : vert \in { ResampleY(ResampleX(
                           Table([p \in Pixels(i.size) |-> Premultiply(i.px[p])]),
                           i.size, size), i.size, size)
                       : i \in {im} } })

Transparent == <<0, 0, 0, 0>>

Box(x, y, r) == <<x - r, y - r, x + r, y + r>>

(***************************************************************************)
(* _render_png, lines 50-127, on the layout l and the arguments a: the     *)
(* image it saves and returns.                                             *)
(***************************************************************************)
HasBackground(l, a) ==
    l.background_diameter_px # None /\ a.background_color # None

\* a faulty variant of scaled_radius: the half is rounded up
scaled_radius_rounded_up(diameter_px, scale) == (diameter_px * scale + 1) \div 2

\* lines 60, 73, 85 and 115: (diameter * scale) // 2, in pixels of the
\* scaled canvas
scaled_radius(diameter_px, scale) == (diameter_px * scale) \div 2

\* lines 58-69
PaintBackground(img, l, a, scale) ==
    IF HasBackground(l, a)
      THEN LET background_radius == scaled_radius(l.background_diameter_px[1], scale)
           IN  Ellipse(img, Box(l.cx * scale, l.cy * scale, background_radius),
                       a.background_color)
      ELSE img

\* a faulty variant of PaintOuter: the diameter is taken for the radius
PaintOuterTwiceAsWide(img, l, a, scale) ==
    IF l.draw_outer
      THEN LET outer_radius == l.outer_diameter_px * scale
           IN  Ellipse(img, Box(l.cx * scale, l.cy * scale, outer_radius),
                       a.outer_color)
      ELSE img

\* lines 71-77
PaintOuter(img, l, a, scale) ==
    IF l.draw_outer
      THEN LET outer_radius == scaled_radius(l.outer_diameter_px, scale)
           IN  Ellipse(img, Box(l.cx * scale, l.cy * scale, outer_radius),
                       a.outer_color)
      ELSE img

\* a faulty variant of CrossMask: the strokes are not clipped
CrossMaskUnclipped(l, scale) ==
    LET scaled_size == <<l.img_size[1] * scale, l.img_size[2] * scale>>
        scaled_cx == l.cx * scale
        scaled_cy == l.cy * scale
        cross_length == scaled_radius(l.outer_diameter_px, scale)
        horizontal == Line(ImageNew(scaled_size, 0),
                           <<scaled_cx - cross_length, scaled_cy,
                             scaled_cx + cross_length, scaled_cy>>,
                           255, l.cross_width_px * scale)
    IN  Line(horizontal,
             <<scaled_cx, scaled_cy - cross_length,
               scaled_cx, scaled_cy + cross_length>>,
             255, l.cross_width_px * scale)

\* lines 83-107: the cross mask clipped to the outer circle
CrossMask(l, scale) ==
    LET scaled_size == <<l.img_size[1] * scale, l.img_size[2] * scale>>
        scaled_cx == l.cx * scale
        scaled_cy == l.cy * scale
        outer_radius == scaled_radius(l.outer_diameter_px, scale)
        circle_mask == Ellipse(ImageNew(scaled_size, 0),
                               Box(scaled_cx, scaled_cy, outer_radius), 255)
        cross_length == outer_radius
        horizontal == Line(ImageNew(scaled_size, 0),
                           <<scaled_cx - cross_length, scaled_cy,
                             scaled_cx + cross_length, scaled_cy>>,
                           255, l.cross_width_px * scale)
        cross_mask == Line(horizontal,
                           <<scaled_cx, scaled_cy - cross_length,
                             scaled_cx, scaled_cy + cross_length>>,
                           255, l.cross_width_px * scale)
    IN  Multiply(cross_mask, circle_mask)

\* lines 79-111
PaintCross(img, l, a, scale) ==
    IF l.draw_cross
      THEN LET scaled_size == <<l.img_size[1] * scale, l.img_size[2] * scale>>
               cross_layer == ImageNew(scaled_size, a.cross_color)
           IN  Composite(cross_layer, img, CrossMask(l, scale))
      ELSE img

\* lines 113-120
PaintCenter(img, l, a, scale) ==
    IF l.draw_center
      THEN LET center_radius == scaled_radius(l.center_diameter_px, scale)
           IN  Ellipse(img, Box(l.cx * scale, l.cy * scale, center_radius),
                       a.center_color)
      ELSE img

\* a faulty variant of _render_png: the centre dot is painted before the cross
_render_png_center_early(l, a) ==
    LET scale == IF a.antialias THEN 2 ELSE 1
        scaled_size == <<l.img_size[1] * scale, l.img_size[2] * scale>>
        img0 == ImageNew(scaled_size, Transparent)
        img1 == PaintBackground(img0, l, a, scale)
        img2 == PaintOuter(img1, l, a, scale)
        img3 == PaintCenter(img2, l, a, scale)
        img4 == PaintCross(img3, l, a, scale)
    IN  IF a.antialias THEN Resize(img4, l.img_size) ELSE img4

_render_png(l, a) ==
    LET scale == IF a.antialias THEN 2 ELSE 1
        scaled_size == <<l.img_size[1] * scale, l.img_size[2] * scale>>
        img0 == ImageNew(scaled_size, Transparent)
        img1 == PaintBackground(img0, l, a, scale)
        img2 == PaintOuter(img1, l, a, scale)
        img3 == PaintCross(img2, l, a, scale)
        img4 == PaintCenter(img3, l, a, scale)
    IN  IF a.antialias THEN Resize(img4, l.img_size) ELSE img4

\* lines 58-120: the shapes _render_png paints, in the order it paints them,
\* in pixels of the scaled canvas
RasterLayers(l, a) ==
    LET scale == IF a.antialias THEN 2 ELSE 1
        center == <<l.cx * scale, l.cy * scale>>
    IN  (IF HasBackground(l, a)
           THEN << [shape |-> "circle", color |-> a.background_color,
                    center |-> center, scale |-> scale,
                    radius |-> scaled_radius(l.background_diameter_px[1], scale)] >>
           ELSE << >>)
        \o (IF l.draw_outer
              THEN << [shape |-> "circle", color |-> a.outer_color,
                       center |-> center, scale |-> scale,
                       radius |-> scaled_radius(l.outer_diameter_px, scale)] >>
              ELSE << >>)
        \o (IF l.draw_cross
              THEN << [shape |-> "cross", color |-> a.cross_color,
                       center |-> center, scale |-> scale,
                       radius |-> scaled_radius(l.outer_diameter_px, scale),
                       length |-> scaled_radius(l.outer_diameter_px, scale),
                       width |-> l.cross_width_px * scale] >>
              ELSE << >>)
        \o (IF l.draw_center
              THEN << [shape |-> "circle", color |-> a.center_color,
                       center |-> center, scale |-> scale,
                       radius |-> scaled_radius(l.center_diameter_px, scale)] >>
              ELSE << >>)

(***************************************************************************)
(* _render_svg, lines 148-192: the drawing it saves.  A radius or a half   *)
(* length is diameter / 2 in floating point and is kept as the diameter    *)
(* (twice the value); an opacity a / 255.0 is kept as its numerator.       *)
(***************************************************************************)
\* lines 25-28
_rgba_to_svg_attrs(color) ==
    [fill |-> <<color[1], color[2], color[3]>>, fill_opacity |-> color[4]]

Circle(cx, cy, diameter, attrs) ==
    [tag |-> "circle", center |-> <<cx, cy>>, r2 |-> diameter, attrs |-> attrs]

\* a faulty variant of SvgDefs: the clip path is defined whenever the outer
\* circle or the cross is drawn
SvgDefsWithOuter(l) ==
    IF l.draw_cross \/ l.draw_outer
      THEN << [tag |-> "clipPath", id |-> "circle-clip",
               children |-> << [tag |-> "circle", center |-> <<l.cx, l.cy>>,
                                r2 |-> l.outer_diameter_px] >>] >>
      ELSE << >>

\* lines 165-168
SvgDefs(l) ==
    IF l.draw_cross
      THEN << [tag |-> "clipPath", id |-> "circle-clip",
               children |-> << [tag |-> "circle", center |-> <<l.cx, l.cy>>,
                                r2 |-> l.outer_diameter_px] >>] >>
      ELSE << >>

\* lines 170-185
CrossGroup(l, a) ==
    LET stroke_attrs == [stroke |-> <<a.cross_color[1], a.cross_color[2],
                                      a.cross_color[3]>>,
                         stroke_opacity |-> a.cross_color[4],
                         stroke_width |-> l.cross_width_px,
                         stroke_linecap |-> "butt"]
        \* coordinates doubled: cross_length is outer_diameter_px / 2
        line(x0, y0, x1, y1) ==
            [tag |-> "line", start2 |-> <<x0, y0>>, end2 |-> <<x1, y1>>,
             fill |-> "none", attrs |-> stroke_attrs]
    IN  [tag |-> "g", clip_path |-> "url(#circle-clip)",
         children |->
           << line(2 * l.cx - l.outer_diameter_px, 2 * l.cy,
                   2 * l.cx + l.outer_diameter_px, 2 * l.cy),
              line(2 * l.cx, 2 * l.cy - l.outer_diameter_px,
                   2 * l.cx, 2 * l.cy + l.outer_diameter_px) >>]

\* a faulty variant of _render_svg: the centre dot is added before the cross
_render_svg_center_early(l, a) ==
    [ size |-> l.img_size,
      profile |-> "full",
      defs |-> SvgDefs(l),
      elements |->
        (IF HasBackground(l, a)
           THEN << Circle(l.cx, l.cy, l.background_diameter_px[1],
                          _rgba_to_svg_attrs(a.background_color)) >>
           ELSE << >>)
        \o (IF l.draw_outer
              THEN << Circle(l.cx, l.cy, l.outer_diameter_px,
                             _rgba_to_svg_attrs(a.outer_color)) >>
              ELSE << >>)
        \o (IF l.draw_center
              THEN << Circle(l.cx, l.cy, l.center_diameter_px,
                             _rgba_to_svg_attrs(a.center_color)) >>
              ELSE << >>)
        \o (IF l.draw_cross THEN << CrossGroup(l, a) >> ELSE << >>) ]

_render_svg(l, a) ==
    [ size |-> l.img_size,
      profile |-> "full",
      defs |-> SvgDefs(l),
      elements |->
        (IF HasBackground(l, a)
           THEN << Circle(l.cx, l.cy, l.background_diameter_px[1],
                          _rgba_to_svg_attrs(a.background_color)) >>
           ELSE << >>)
        \o (IF l.draw_outer
              THEN << Circle(l.cx, l.cy, l.outer_diameter_px,
                             _rgba_to_svg_attrs(a.outer_color)) >>
              ELSE << >>)
        \o (IF l.draw_cross THEN << CrossGroup(l, a) >> ELSE << >>)
        \o (IF l.draw_center
              THEN << Circle(l.cx, l.cy, l.center_diameter_px,
                             _rgba_to_svg_attrs(a.center_color)) >>
              ELSE << >>) ]

(***************************************************************************)
(* The invocation.                                                         *)
(***************************************************************************)
Black == <<0, 0, 0, 255>>
White == <<255, 255, 255, 255>>
Gray == <<128, 128, 128, 255>>
HalfBlack == <<0, 0, 0, 128>>

RECURSIVE StringsUpTo(_)
StringsUpTo(n) ==
    IF n = 0 THEN { << >> }
    ELSE LET shorter == StringsUpTo(n - 1)
         IN  shorter \cup { Append(s, ch) : s \in shorter, ch \in Letters }

\* the keyword "filename" each caller passes: cli.py line 138 always,
\* example.py line 53, examples_all.py lines 60-75 never
FilenamesOf(c) ==
    CASE c = "cli" -> { <<"fixation">>, <<"my_target">> }
      [] c = "example" -> { <<"fixation">> }
      [] c = "examples_all" -> { None }

\* the path of lines 336-337: the stem is the literal "fixation"
OutputPath(target_type, ext) ==
    [stem |-> "fixation", suffix |-> Lower(target_type), ext |-> ext]

Init ==
    /\ pc = "idle"
    /\ caller = ""
    /\ args = << >>
    /\ err = ""
    /\ layout = None
    /\ dirCreated = FALSE
    /\ files = {}
    /\ png = None
    /\ svg = None
    /\ roundtrip = None

\* A caller builds its keyword arguments and calls fixation_target.
CallOn(Screens, Callers, Types, Colors, CenterDegs, OuterDegs, CrossDegs, BackgroundDegs, BackgroundColors, Antialias) ==
    /\ pc = "idle"
    /\ \E screen \in Screens, c \in Callers, t \in Types, cc \in Colors, oc \in Colors, xc \in Colors,
          cd \in CenterDegs, od \in OuterDegs, xd \in CrossDegs,
          bd \in BackgroundDegs, bc \in BackgroundColors, aa \in Antialias :
         \E fn \in FilenamesOf(c) :
           /\ caller' = c
           /\ args' = [ screen_width_mm |-> screen.screen_width_mm,
                        screen_height_mm |-> screen.screen_height_mm,
                        screen_width_px |-> screen.screen_width_px,
                        screen_height_px |-> screen.screen_height_px,
                        viewing_distance_mm |-> screen.viewing_distance_mm,
                        target_type |-> t,
                        center_diameter_in_degrees |-> cd,
                        outer_diameter_in_degrees |-> od,
                        cross_width_in_degrees |-> xd,
                        center_color |-> cc,
                        outer_color |-> oc,
                        cross_color |-> xc,
                        background_diameter_in_degrees |-> bd,
                        background_color |-> bc,
                        antialias |-> aa,
                        filename |-> fn ]
    /\ pc' = "bind"
    /\ UNCHANGED <<roundtrip, err, layout, dirCreated, files, png, svg>>

\* the same on the screen of example.py
CallWith(Callers, Types, Colors, CenterDegs, OuterDegs, CrossDegs, BackgroundDegs, BackgroundColors, Antialias) ==
    CallOn({ExampleScreen}, Callers, Types, Colors, CenterDegs, OuterDegs, CrossDegs, BackgroundDegs, BackgroundColors, Antialias)

\* Lines 195-213: the signature has no parameter "filename".
Bind ==
    /\ pc = "bind"
    /\ \/ /\ args.filename # None
          /\ pc' = "raised"
          /\ err' = "TypeError"
       \/ /\ args.filename = None
          /\ pc' = "validate"
          /\ err' = err
    /\ UNCHANGED <<roundtrip, caller, args, layout, dirCreated, files, png, svg>>

\* a faulty variant of Validate: the output directory is made before the checks
ValidateAfterMkdir ==
    /\ pc = "validate"
    /\ dirCreated' = TRUE
    /\ \/ /\ ~IsValidType(args.target_type)
          /\ pc' = "raised"
          /\ err' = "InvalidTargetType"
       \/ /\ IsValidType(args.target_type)
          /\ ColorConflict(Upper(args.target_type), args)
          /\ pc' = "raised"
          /\ err' = "ColorConflict"
       \/ /\ IsValidType(args.target_type)
          /\ ~ColorConflict(Upper(args.target_type), args)
          /\ pc' = "layout"
          /\ err' = err
    /\ UNCHANGED <<roundtrip, caller, args, layout, files, png, svg>>

\* Lines 238-284: both checks raise ValueError, told apart by the message.
Validate ==
    /\ pc = "validate"
    /\ \/ /\ ~IsValidType(args.target_type)
          /\ pc' = "raised"
          /\ err' = "InvalidTargetType"
       \/ /\ IsValidType(args.target_type)
          /\ ColorConflict(Upper(args.target_type), args)
          /\ pc' = "raised"
          /\ err' = "ColorConflict"
       \/ /\ IsValidType(args.target_type)
          /\ ~ColorConflict(Upper(args.target_type), args)
          /\ pc' = "layout"
          /\ err' = err
    /\ UNCHANGED <<roundtrip, caller, args, layout, dirCreated, files, png, svg>>

\* Lines 245-248 and 286-331: the constructor of the converter divides the
\* screen dimensions (converter.py lines 45-48); nothing else is checked.
Layout ==
    /\ pc = "layout"
    /\ layout' = IF DividesByZero(args) THEN layout ELSE <<ComputedLayout(args)>>
    /\ pc' = IF DividesByZero(args) THEN "raised" ELSE "mkdir"
    /\ err' = IF DividesByZero(args) THEN "ZeroDivisionError" ELSE err
    /\ UNCHANGED <<roundtrip, caller, args, dirCreated, files, png, svg>>

\* Lines 333-337: mkdir(exist_ok=True) leaves the directory in place, made
\* if it was absent, or fails (a missing parent, no permission).
Mkdir ==
    /\ pc = "mkdir"
    /\ \/ /\ dirCreated' = TRUE
          /\ pc' = "png"
          /\ err' = err
       \/ /\ dirCreated' = dirCreated
          /\ pc' = "raised"
          /\ err' = "OSError"
    /\ UNCHANGED <<roundtrip, caller, args, layout, files, png, svg>>

\* Lines 339-358: the canvas is composed and img.save writes it, or fails.
RenderPng ==
    /\ pc = "png"
    /\ png' = <<_render_png(layout[1], args)>>
    /\ \/ /\ files' = files \cup {OutputPath(layout[1].target_type, "png")}
          /\ pc' = "svg"
          /\ err' = err
       \/ /\ files' = files
          /\ pc' = "raised"
          /\ err' = "OSError"
    /\ UNCHANGED <<roundtrip, caller, args, layout, dirCreated, svg>>

\* Lines 360-378: the drawing is built and dwg.save writes it, or fails.
RenderSvg ==
    /\ pc = "svg"
    /\ svg' = <<_render_svg(layout[1], args)>>
    /\ \/ /\ files' = files \cup {OutputPath(layout[1].target_type, "svg")}
          /\ pc' = "show"
          /\ err' = err
       \/ /\ files' = files
          /\ pc' = "raised"
          /\ err' = "OSError"
    /\ UNCHANGED <<roundtrip, caller, args, layout, dirCreated, png>>

\* Lines 380-382: the optional display changes nothing the call returns.
Finish ==
    /\ pc = "show"
    /\ pc' = "done"
    /\ UNCHANGED <<roundtrip, caller, args, err, layout, dirCreated, files, png, svg>>

\* the steps of fixation_target after the call
Steps ==
    \/ Bind
    \/ Validate
    \/ Layout
    \/ Mkdir
    \/ RenderPng
    \/ RenderSvg
    \/ Finish

(***************************************************************************)
(* Spec: every caller, spellings of the type in and out of the accepted    *)
(* set, colours that differ in one channel only, with and without a        *)
(* background, at one set of sizes.                                        *)
(***************************************************************************)
SomeTypes ==
    valid_types \cup
      { <<"a", "b", "c">>, <<"A", "b">>, <<"c">>, << >>, <<"B", "A">>,
        <<"A", "A">>, <<"D">> }

Call ==
    CallWith({"cli", "example", "examples_all"}, SomeTypes,
             {Black, White, HalfBlack}, {4}, {7}, {2},
             {None, <<10>>}, {None, Gray}, BOOLEAN)

Next == Call \/ Steps

Spec == Init /\ [][Next]_vars

(***************************************************************************)
(* SpecType: every string of at most MaxTypeLen letters as target_type.    *)
(***************************************************************************)
CallAnyType ==
    CallWith({"example", "examples_all"}, StringsUpTo(MaxTypeLen),
             {Black, White}, {4}, {7}, {2}, {None}, {None}, {FALSE})

NextType == CallAnyType \/ Steps

SpecType == Init /\ [][NextType]_vars

(***************************************************************************)
(* SpecRender: the seven types at sizes from 0 to 6 pixels (angles on      *)
(* ExampleScreen: 1 -> 0 px, 2 and 3 -> 1, 4 -> 2, 5 -> 3, 7 -> 4,         *)
(* 10 -> 6): a centre dot of 1..MaxCenterDeg, a background smaller and     *)
(* larger than the outer circle, with and without its colour, a cross      *)
(* narrower and wider than the outer circle, anti-aliased and not.         *)
(***************************************************************************)
MaxCenterDeg == 3

CallAnySize ==
    CallWith({"example", "examples_all"}, valid_types \cup { <<"B", "A">> },
             {Black, White}, 1..MaxCenterDeg, {5, 7}, {2, 10},
             {None, <<2>>, <<10>>}, {None, Gray}, BOOLEAN)

NextRender == CallAnySize \/ Steps

SpecRender == Init /\ [][NextRender]_vars

(***************************************************************************)
(* SpecGeometry: screens with a zero dimension or a zero viewing distance, *)
(* and sizes of zero degrees, next to the screen and sizes of example.py.  *)
(***************************************************************************)
Screens ==
    { ExampleScreen,
      [ExampleScreen EXCEPT !.screen_width_mm = 0],
      [ExampleScreen EXCEPT !.screen_height_mm = 0],
      [ExampleScreen EXCEPT !.screen_width_px = 0],
      [ExampleScreen EXCEPT !.screen_height_px = 0],
      [ExampleScreen EXCEPT !.viewing_distance_mm = 0] }

CallAnyGeometry ==
    CallOn(Screens, {"example", "examples_all"},
           { <<"A">>, <<"B", "C">>, <<"A", "B", "C">>, <<"B", "A">> },
           {Black, White}, {0, 4}, {0, 7}, {0, 2}, {None, <<0>>, <<10>>},
           {None, Gray}, {FALSE})

NextGeometry == CallAnyGeometry \/ Steps

SpecGeometry == Init /\ [][NextGeometry]_vars

(***************************************************************************)
(* SpecConvert: a VisualAngleConverter is constructed for a screen, a      *)
(* pixel count is converted to millimetres and the result back to pixels,  *)
(* along either axis.  The screens are the one of example.py, the one of   *)
(* converter.py lines 85-91, whose pixels are not square, and one with     *)
(* pixels twice as wide as high.                                           *)
(***************************************************************************)
MaxPixels == 30

ConverterScreen ==
    [ screen_width_mm |-> 59600, screen_height_mm |-> 33500,
      screen_width_px |-> 2560, screen_height_px |-> 1440,
      viewing_distance_mm |-> 70000 ]

WidePixelScreen ==
    [ screen_width_mm |-> 40000, screen_height_mm |-> 20000,
      screen_width_px |-> 1000, screen_height_px |-> 1000,
      viewing_distance_mm |-> 70000 ]

\* converter.py lines 19-48, called with the five screen parameters
Construct ==
    /\ pc = "idle"
    /\ \E screen \in {ExampleScreen, ConverterScreen, WidePixelScreen} :
         args' = screen
    /\ pc' = "converter"
    /\ UNCHANGED <<roundtrip, caller, err, layout, dirCreated, files, png, svg>>

\* converter.py lines 50-56, on a whole number of pixels (in thousandths)
PixelsToMm ==
    /\ pc = "converter"
    /\ \E p \in 1..MaxPixels, orientation \in {"horizontal", "vertical"} :
         roundtrip' = << [ pixels |-> 1000 * p, orientation |-> orientation,
                           mm |-> pixels_to_mm(VisualAngleConverter(args),
                                               1000 * p, orientation) ] >>
    /\ pc' = "to_mm"
    /\ UNCHANGED <<caller, args, err, layout, dirCreated, files, png, svg>>

\* converter.py lines 58-64, on the millimetres just computed
MmToPixels ==
    /\ pc = "to_mm"
    /\ roundtrip' = << [ pixels |-> roundtrip[1].pixels,
                         orientation |-> roundtrip[1].orientation,
                         mm |-> roundtrip[1].mm,
                         back |-> mm_to_pixels(VisualAngleConverter(args),
                                               roundtrip[1].mm,
                                               roundtrip[1].orientation) ] >>
    /\ pc' = "converted"
    /\ UNCHANGED <<caller, args, err, layout, dirCreated, files, png, svg>>

NextConvert == Construct \/ PixelsToMm \/ MmToPixels

SpecConvert == Init /\ [][NextConvert]_vars

(***************************************************************************)
(* The claims.                                                             *)
(***************************************************************************)
Ended == pc \in {"done", "raised"}

\* the call has got past the checks of lines 238-284, or was stopped by them
Checked == pc \notin {"idle", "bind", "validate"} /\ err # "TypeError"

NothingDone ==
    /\ ~dirCreated
    /\ layout = None
    /\ png = None
    /\ svg = None
    /\ files = {}

\* s spells v up to the case of each letter
Spells(s, v) ==
    /\ Len(s) = Len(v)
    /\ \A i \in 1..Len(v) :
         \/ s[i] = v[i]
         \/ <<v[i], s[i]>> \in { <<"A", "a">>, <<"B", "b">>, <<"C", "c">> }

SpellsOneOfSeven(s) ==
    \E v \in { <<"A">>, <<"B">>, <<"C">>, <<"A", "B">>, <<"A", "C">>,
               <<"B", "C">>, <<"A", "B", "C">> } : Spells(s, v)

\* C1: a target_type is accepted exactly when it spells one of A, B, C, AB,
\* AC, BC, ABC in any mix of cases; every other string ends the call with the
\* invalid-target-type error and nothing drawn or written.
C1_TypeAcceptedIffOneOfSeven ==
    Checked =>
        /\ (err = "InvalidTargetType") <=> ~SpellsOneOfSeven(args.target_type)
        /\ (err = "InvalidTargetType") => (pc = "raised" /\ NothingDone)

C1_Witness ==
    /\ pc = "done"
    /\ args.target_type = <<"a", "B", "c">>
    /\ Cardinality(files) = 2

TypeIs(v) == Checked /\ err # "InvalidTargetType" /\ Upper(args.target_type) = v

\* C2: for AB, AC and BC the call fails with the colour-conflict error exactly
\* when the two active components have the same RGBA colour, whatever the
\* colour of the inactive one; for A, B and C alone no colours are rejected.
C2_TwoComponentConflict ==
    /\ TypeIs(<<"A", "B">>) =>
         ((err = "ColorConflict") <=> (args.center_color = args.outer_color))
    /\ TypeIs(<<"A", "C">>) =>
         ((err = "ColorConflict") <=> (args.center_color = args.cross_color))
    /\ TypeIs(<<"B", "C">>) =>
         ((err = "ColorConflict") <=> (args.outer_color = args.cross_color))
    /\ (TypeIs(<<"A">>) \/ TypeIs(<<"B">>) \/ TypeIs(<<"C">>)) =>
         err # "ColorConflict"

C2_Witness ==
    /\ pc = "done"
    /\ TypeIs(<<"A", "B">>)
    /\ args.cross_color = args.center_color
    /\ args.center_color # args.outer_color
    /\ Cardinality(files) = 2

BothFiles ==
    files = { [stem |-> "fixation", suffix |-> Lower(args.target_type), ext |-> e]
              : e \in {"png", "svg"} }

\* C3: for ABC the call fails with the colour-conflict error exactly when the
\* cross colour equals the outer or the centre colour; with the centre and
\* outer colours equal and the cross colour different it is accepted, and a
\* call that completes has written both files.
C3_ThreeComponentConflict ==
    TypeIs(<<"A", "B", "C">>) =>
        /\ (err = "ColorConflict") <=>
             (args.cross_color = args.outer_color
                \/ args.cross_color = args.center_color)
        /\ pc = "done" => BothFiles

C3_Witness ==
    /\ pc = "done"
    /\ TypeIs(<<"A", "B", "C">>)
    /\ args.center_color = args.outer_color
    /\ BothFiles

\* C4: a call that ends in the invalid-target-type or the colour-conflict
\* error has made no directory, computed no layout, composed no canvas or
\* drawing and written no file.
C4_InputErrorsBeforeAnyEffect ==
    err \in {"InvalidTargetType", "ColorConflict"} => (pc = "raised" /\ NothingDone)

C4_Witness ==
    /\ pc = "raised"
    /\ err = "ColorConflict"
    /\ NothingDone

\* C5: a call that has ended has written both files or none: it completes
\* with the PNG and the SVG, or fails with no file written.
C5_BothFilesOrNone ==
    /\ pc = "done" => BothFiles
    /\ pc = "raised" => files = {}

Accepted ==
    IsValidType(args.target_type) /\ ~ColorConflict(Upper(args.target_type), args)

\* C6: a call whose caller supplies a filename stem, with an accepted
\* configuration and no file-system failure, ends having written exactly
\* <stem>_<type-lowercase>.png and <stem>_<type-lowercase>.svg into the
\* output directory, made if absent.
C6_FilesNamedByCallerStem ==
    (Ended /\ args.filename # None /\ Accepted /\ err # "OSError") =>
        /\ pc = "done"
        /\ dirCreated
        /\ files = { [stem |-> args.filename[1],
                      suffix |-> Lower(args.target_type), ext |-> e]
                     : e \in {"png", "svg"} }

PxOf(a, deg) == int(visual_angle_to_pixels(VisualAngleConverter(a), deg, "vertical"))

DrivingDiameter(a) ==
    IF a.background_diameter_in_degrees # None
      THEN PxOf(a, a.background_diameter_in_degrees[1])
      ELSE SetMax(
             (IF Contains(Upper(a.target_type), "A")
                THEN {PxOf(a, a.center_diameter_in_degrees)} ELSE {})
             \cup (IF Contains(Upper(a.target_type), "B")
                     \/ Contains(Upper(a.target_type), "C")
                     THEN {PxOf(a, a.outer_diameter_in_degrees)} ELSE {}))

\* C7: for every accepted configuration the canvas is square with side the
\* driving diameter + 2: the truncated pixel size of the background diameter
\* whenever one is supplied, otherwise the largest truncated pixel diameter of
\* the active components, the outer diameter standing in for the cross; the
\* raster image and the vector drawing both have that size.
C7_CanvasIsDrivingDiameterPlusTwo ==
    LET side == DrivingDiameter(args) + 2 IN
    /\ layout # None => layout[1].img_size = <<side, side>>
    /\ png # None => png[1].size = <<side, side>>
    /\ svg # None => svg[1].size = <<side, side>>

C7_Witness ==
    /\ pc = "done"
    /\ args.background_diameter_in_degrees = <<2>>
    /\ args.background_color = None
    /\ Upper(args.target_type) = <<"A", "B">>
    /\ png[1].size = <<3, 3>>
    /\ svg[1].size = <<3, 3>>

CenterPixel == png[1].px[<<layout[1].cx, layout[1].cy>>]

CornerAlpha == png[1].px[<<0, 0>>][4]

\* C9 as stated: without a background the corner pixel (0, 0) of the raster
\* image is fully transparent, for every type and pixel diameter.
C9_CornerTransparent ==
    (png # None /\ args.background_diameter_in_degrees = None) => CornerAlpha = 0

\* C9 as amended: without a background diameter and with anti-aliasing off,
\* the corner pixel (0, 0) of the raster image is fully transparent, for
\* every type and pixel diameter.
C9_CornerTransparentUnsmoothed ==
    (png # None /\ args.background_diameter_in_degrees = None /\ ~args.antialias)
        => CornerAlpha = 0

C9_Witness ==
    /\ pc = "done"
    /\ ~args.antialias
    /\ args.background_diameter_in_degrees = None
    /\ Upper(args.target_type) = <<"B", "C">>
    /\ layout[1].cross_width_px > layout[1].outer_diameter_px
    /\ CornerAlpha = 0
    /\ CenterPixel[4] = 255

RECURSIVE ClipPaths(_)
\* the clipPath elements among the elements es and their children
ClipPaths(es) ==
    IF es = << >> THEN 0
    ELSE (IF Head(es).tag = "clipPath" THEN 1 ELSE 0)
           + (IF Head(es).tag = "g" THEN ClipPaths(Head(es).children) ELSE 0)
           + ClipPaths(Tail(es))

\* C10: the vector drawing holds exactly one clipPath when the target type
\* includes C and none when it does not, whatever else is drawn.
C10_OneClipPathIffCross ==
    svg # None =>
        ClipPaths(svg[1].defs) + ClipPaths(svg[1].elements)
          = (IF \E i \in 1..Len(args.target_type) : args.target_type[i] \in {"C", "c"}
               THEN 1 ELSE 0)

C10_Witness ==
    /\ pc = "done"
    /\ Upper(args.target_type) = <<"B", "C">>
    /\ args.background_color # None
    /\ args.background_diameter_in_degrees # None
    /\ ClipPaths(svg[1].defs) = 1

NonPositiveGeometry(a) ==
    \/ a.screen_width_mm <= 0
    \/ a.screen_height_mm <= 0
    \/ a.screen_width_px <= 0
    \/ a.screen_height_px <= 0
    \/ a.viewing_distance_mm <= 0
    \/ a.center_diameter_in_degrees <= 0
    \/ a.outer_diameter_in_degrees <= 0
    \/ a.cross_width_in_degrees <= 0
    \/ (a.background_diameter_in_degrees # None
          /\ a.background_diameter_in_degrees[1] <= 0)

\* C11: a call with a non-positive screen dimension, viewing distance or
\* component size, once past the type and colour checks, ends with the
\* invalid-geometry error, having made no directory, no canvas and no file;
\* it never completes.
C11_NonPositiveGeometryRejected ==
    (pc \notin {"idle", "bind", "validate", "layout"} /\ err # "TypeError"
        /\ Accepted /\ NonPositiveGeometry(args))
        => /\ pc = "raised"
           /\ err = "InvalidGeometry"
           /\ ~dirCreated /\ png = None /\ svg = None /\ files = {}


\* the colour an element of the drawing is filled or stroked with
ColorOf(attrs) ==
    IF "fill" \in DOMAIN attrs
      THEN <<attrs.fill[1], attrs.fill[2], attrs.fill[3], attrs.fill_opacity>>
      ELSE <<attrs.stroke[1], attrs.stroke[2], attrs.stroke[3], attrs.stroke_opacity>>

\* the shapes of the drawing doc in document order: a circle with twice its
\* radius, a clipped group with twice the radius of the circle of its clip
\* path and twice the half-length of its first stroke
SvgLayers(doc) ==
    [ i \in 1..Len(doc.elements) |->
        LET e == doc.elements[i] IN
        IF e.tag = "circle"
          THEN [shape |-> "circle", color |-> ColorOf(e.attrs),
                center |-> e.center, r2 |-> e.r2]
          ELSE [shape |-> "cross", color |-> ColorOf(e.children[1].attrs),
                center |-> doc.defs[1].children[1].center,
                r2 |-> doc.defs[1].children[1].r2,
                length2 |-> (e.children[1].end2[1] - e.children[1].start2[1]) \div 2,
                width |-> e.children[1].attrs.stroke_width] ]

Rendered == png # None /\ svg # None

\* raster layer p and vector layer v have the same centre in nominal pixels
SameCenter(p, v) == p.center = <<v.center[1] * p.scale, v.center[2] * p.scale>>

\* ... and the same radius: radius / scale = r2 / 2
SameRadius(p, v) == 2 * p.radius = v.r2 * p.scale

\* C12 as stated: the image and the drawing have the same canvas size, and
\* layer by layer the same centre and the same radius in nominal pixels, with
\* either setting of the anti-alias flag and odd diameters included.
C12_RenderersSameGeometry ==
    Rendered =>
        LET P == RasterLayers(layout[1], args)
            V == SvgLayers(svg[1])
        IN  /\ png[1].size = svg[1].size
            /\ Len(P) = Len(V)
            /\ \A i \in 1..Len(P) : SameCenter(P[i], V[i]) /\ SameRadius(P[i], V[i])

\* C12 as amended: the same canvas size and the same centres always; the
\* same radius when anti-aliasing is on or the pixel diameter is even; with
\* anti-aliasing off and an odd diameter the raster radius is the vector
\* radius less half a pixel.
C12_RenderersSameGeometryUpToHalfPixel ==
    Rendered =>
        LET P == RasterLayers(layout[1], args)
            V == SvgLayers(svg[1])
        IN  /\ png[1].size = svg[1].size
            /\ Len(P) = Len(V)
            /\ \A i \in 1..Len(P) :
                 /\ SameCenter(P[i], V[i])
                 /\ IF args.antialias \/ V[i].r2 % 2 = 0
                      THEN SameRadius(P[i], V[i])
                      ELSE 2 * P[i].radius = V[i].r2 - 1

C12_Witness ==
    /\ pc = "done"
    /\ args.antialias
    /\ Len(RasterLayers(layout[1], args)) = 4
    /\ layout[1].outer_diameter_px = 3
    /\ layout[1].center_diameter_px = 1
    /\ RasterLayers(layout[1], args)[2].radius = 3
    /\ SvgLayers(svg[1])[2].r2 = 3


\* the screen dimensions along an axis, read from the constructor's arguments
MmAlong(a, orientation) ==
    IF orientation = "horizontal" THEN a.screen_width_mm ELSE a.screen_height_mm

PxAlong(a, orientation) ==
    IF orientation = "horizontal" THEN a.screen_width_px ELSE a.screen_height_px

\* what one truncated product and one truncated quotient can lose, in
\* thousandths of a pixel: the fixed-point counterpart of floating tolerance
Tolerance(a, orientation) == PxAlong(a, orientation) \div MmAlong(a, orientation) + 1

\* C13: for every converter of a screen with positive dimensions, every
\* positive pixel count p and either axis, pixels_to_mm(p, axis) is p times
\* the millimetres per pixel of that axis and mm_to_pixels of it, along the
\* same axis, is p again within the tolerance of the arithmetic; the ratios
\* of an axis are exact reciprocals, so in exact arithmetic the round trip is
\* the identity.
C13_PixelsMmRoundTrip ==
    /\ pc \in {"to_mm", "converted"} =>
         LET r == roundtrip[1]
             conv == VisualAngleConverter(args)
         IN  /\ r.mm = (r.pixels * MmAlong(args, r.orientation))
                          \div PxAlong(args, r.orientation)
             /\ conv.width_mm_per_pixel[1] * conv.width_pixels_per_mm[1]
                  = conv.width_mm_per_pixel[2] * conv.width_pixels_per_mm[2]
             /\ conv.height_mm_per_pixel[1] * conv.height_pixels_per_mm[1]
                  = conv.height_mm_per_pixel[2] * conv.height_pixels_per_mm[2]
    /\ pc = "converted" =>
         LET r == roundtrip[1]
         IN  /\ r.back <= r.pixels
             /\ r.pixels - r.back <= Tolerance(args, r.orientation)

C13_Witness ==
    /\ pc = "converted"
    /\ args = WidePixelScreen
    /\ roundtrip[1].orientation = "vertical"
    /\ roundtrip[1].pixels = 1000 * MaxPixels
    /\ roundtrip[1].mm = 20 * 1000 * MaxPixels
    /\ roundtrip[1].back = roundtrip[1].pixels


\* the pixel q of a canvas scaled by scale has its centre within half a
\* pixel of the circle of diameter diameter_px * scale around the centre of
\* the layout l: the circle as a raster can hold it
NearCircle(q, l, diameter_px, scale) ==
    LET dx == 2 * (q[1] - l.cx * scale)
        dy == 2 * (q[2] - l.cy * scale)
        a == 2 * ((diameter_px * scale) \div 2) + 1
    IN  dx * dx + dy * dy <= a * a

HasCross == Rendered /\ layout[1].draw_cross

\* C14: whenever C is active, with or without B, the raster strokes have the
\* half-length and the clip circle the radius (outer diameter * scale) // 2,
\* the vector strokes the half-length and the clip circle of the group the
\* radius outer diameter / 2; no pixel of the clipped cross mask lies outside
\* that circle as rasterised, for every cross width, and without
\* anti-aliasing no opaque pixel of a C-only image does.
C14_CrossBoundedByOuterCircle ==
    HasCross =>
        LET l == layout[1]
            scale == IF args.antialias THEN 2 ELSE 1
            P == RasterLayers(l, args)
            V == SvgLayers(svg[1])
            mask == CrossMask(l, scale)
        IN  /\ \A i \in 1..Len(P) : P[i].shape = "cross" =>
                 /\ P[i].radius = (l.outer_diameter_px * scale) \div 2
                 /\ P[i].length = P[i].radius
                 /\ V[i].shape = "cross"
                 /\ V[i].r2 = l.outer_diameter_px
                 /\ V[i].length2 = l.outer_diameter_px
                 /\ V[i].center = <<l.cx, l.cy>>
            /\ \E i \in 1..Len(P) : P[i].shape = "cross"
            /\ \A i \in 1..Len(svg[1].elements) : svg[1].elements[i].tag = "g" =>
                 /\ svg[1].elements[i].clip_path = "url(#circle-clip)"
                 /\ Len(svg[1].defs) = 1
                 /\ svg[1].defs[1].id = "circle-clip"
            /\ \A q \in DOMAIN mask.px :
                 mask.px[q] # 0 => NearCircle(q, l, l.outer_diameter_px, scale)
            /\ (l.target_type = <<"C">> /\ ~HasBackground(l, args) /\ ~args.antialias) =>
                 \A q \in DOMAIN png[1].px :
                    png[1].px[q][4] # 0 => NearCircle(q, l, l.outer_diameter_px, 1)

C14_Witness ==
    /\ pc = "done"
    /\ layout[1].target_type = <<"C">>
    /\ ~args.antialias
    /\ layout[1].cross_width_px > layout[1].outer_diameter_px
    /\ png[1].px[<<layout[1].cx, layout[1].cy>>] = args.cross_color
    /\ png[1].px[<<0, 0>>][4] = 0
    /\ SvgLayers(svg[1])[1].r2 = layout[1].outer_diameter_px


\* the layers a call with the arguments a is to show, back to front, each as
\* <<shape, colour>>
ExpectedLayers(a) ==
    LET t == Upper(a.target_type) IN
    (IF a.background_diameter_in_degrees # None /\ a.background_color # None
       THEN << <<"circle", a.background_color>> >> ELSE << >>)
    \o (IF Contains(t, "B") THEN << <<"circle", a.outer_color>> >> ELSE << >>)
    \o (IF Contains(t, "C") THEN << <<"cross", a.cross_color>> >> ELSE << >>)
    \o (IF Contains(t, "A") THEN << <<"circle", a.center_color>> >> ELSE << >>)

ShapesOf(layers) == [i \in 1..Len(layers) |-> <<layers[i].shape, layers[i].color>>]

\* C15: the layers painted by _render_png and the layers emitted by
\* _render_svg are the same sequence: background (only with both its
\* diameter and its colour), outer circle, cross, centre dot, each exactly
\* when it is active; in the image without anti-aliasing the pixel at the
\* centre, which every layer covers, shows the last of them.
C15_SameLayersSameOrder ==
    Rendered =>
        LET P == RasterLayers(layout[1], args)
            V == SvgLayers(svg[1])
        IN  /\ ShapesOf(P) = ExpectedLayers(args)
            /\ ShapesOf(V) = ExpectedLayers(args)
            /\ ~args.antialias =>
                 CenterPixel = (IF Len(P) = 0 THEN Transparent ELSE P[Len(P)].color)

C15_Witness ==
    /\ pc = "done"
    /\ ~args.antialias
    /\ ShapesOf(SvgLayers(svg[1]))
         = << <<"circle", Gray>>, <<"circle", Black>>, <<"cross", White>>,
              <<"circle", Black>> >>
    /\ ShapesOf(RasterLayers(layout[1], args)) = ShapesOf(SvgLayers(svg[1]))
    /\ CenterPixel = Black


\* raster layer p, on a canvas of side * p.scale pixels, and vector layer v,
\* on one of side pixels, keep their circle inside the canvas
InsideCanvas(p, v, side) ==
    /\ p.center[1] - p.radius >= 0
    /\ p.center[2] - p.radius >= 0
    /\ p.center[1] + p.radius <= (side[1] - 1) * p.scale
    /\ p.center[2] + p.radius <= (side[2] - 1) * p.scale
    /\ 2 * v.center[1] - v.r2 >= 0
    /\ 2 * v.center[2] - v.r2 >= 0
    /\ 2 * v.center[1] + v.r2 <= 2 * (side[1] - 1)
    /\ 2 * v.center[2] + v.r2 <= 2 * (side[2] - 1)

\* C16 as stated: with or without a background diameter, every circle drawn
\* (background, outer, clip circle of the cross, centre dot) lies inside the
\* canvas: centre - radius >= 0 and centre + radius <= side - 1.
C16_CirclesInsideCanvas ==
    Rendered =>
        LET P == RasterLayers(layout[1], args)
            V == SvgLayers(svg[1])
        IN  \A i \in 1..Len(P) : InsideCanvas(P[i], V[i], png[1].size)

\* no background diameter is given, or it is in pixels at least the diameter
\* of every active component
BackgroundHoldsTarget(l) ==
    \/ l.background_diameter_px = None
    \/ /\ l.draw_center => l.center_diameter_px <= l.background_diameter_px[1]
       /\ (l.draw_outer \/ l.draw_cross)
             => l.outer_diameter_px <= l.background_diameter_px[1]

\* C16 as amended: when no background diameter is supplied, or the
\* background diameter is in pixels at least that of every active component,
\* every circle drawn lies inside the canvas.
C16_CirclesInsideCanvasUnlessSmallBackground ==
    (Rendered /\ BackgroundHoldsTarget(layout[1])) =>
        LET P == RasterLayers(layout[1], args)
            V == SvgLayers(svg[1])
        IN  /\ Len(P) = Len(V)
            /\ \A i \in 1..Len(P) : InsideCanvas(P[i], V[i], png[1].size)

C16_Witness ==
    /\ pc = "done"
    /\ HasBackground(layout[1], args)
    /\ layout[1].background_diameter_px[1] = 6
    /\ Len(RasterLayers(layout[1], args)) = 4
    /\ args.antialias
    /\ RasterLayers(layout[1], args)[1].center[1]
          + RasterLayers(layout[1], args)[1].radius = (png[1].size[1] - 1) * 2
    /\ RasterLayers(layout[1], args)[1].center[1]
          - RasterLayers(layout[1], args)[1].radius = 2


=============================================================================
